---- MODULE Spec2Model ----
(***************************************************************************)
(* Lead-intake pipeline: the text extractor (lead-parser.service.ts) and   *)
(* the ingestion orchestrator (process-inbound-email.service.ts) over the  *)
(* InboundEmail and Lead tables.                                           *)
(*                                                                         *)
(* Texts are sequences of one-character strings.  A nullable column holds  *)
(* <<>> for null and a non-empty sequence otherwise; an optional row is    *)
(* <<>> or <<row>>.                                                        *)
(***************************************************************************)
EXTENDS Integers, Sequences, FiniteSets, TLC

\* ------------------------------------------------------------------ bounds
\* Rows the InboundEmail table may hold.
MaxEmails == 2
\* Invocations of processInboundEmail in one behaviour.
NumCalls == 2
\* Store operations that may fail transiently in one behaviour.
MaxFailures == 1
\* Requests that reach verifyWebhookSecret in one behaviour.
MaxRequests == 2
\* Invocations of sendSms in one behaviour.
NumSends == 2
\* Digits in a generated phone text handed to normalizePhone on its own.
MaxDigits == 16
\* Calls of getTwilioClient and _setTwilioClient in one behaviour.
MaxOps == 4
\* Lines of a text handed to parseLeadFromEmail on its own.
MaxLines == 4

\* ------------------------------------------------------------- characters
Null == <<>>
\* \d of the regexes.
Digits == {"0", "1", "2", "3", "4", "5", "6", "7", "8", "9"}
\* Line terminators: "." does not match them, and with the m flag ^ and $
\* match next to them.
LineTerminators == {"\n", "\r"}
\* \s of the regexes (it includes the line terminators).
WhiteSpace == {" ", "\t"} \cup LineTerminators

\* Canonicalisation of the i flag, on the letters the labels use.
ToLower(c) ==
  CASE c = "N" -> "n" [] c = "A" -> "a" [] c = "M" -> "m" [] c = "E" -> "e"
    [] c = "P" -> "p" [] c = "H" -> "h" [] c = "O" -> "o" [] c = "L" -> "l"
    [] c = "I" -> "i" [] OTHER -> c

\* The labels of NAME_RE, PHONE_RE and EMAIL_RE, canonicalised.
NAME_RE == <<"n", "a", "m", "e">>
PHONE_RE == <<"p", "h", "o", "n", "e">>
EMAIL_RE == <<"e", "m", "a", "i", "l">>

\* ---------------------------------------------------------- text helpers
\* s[a..b], empty when a > b.
Slice(s, a, b) == [k \in 1..(b - a + 1) |-> s[a + k - 1]]

\* The least and the greatest element of a non-empty set of positions.
Least(S) == CHOOSE k \in S : \A m \in S : k <= m
Greatest(S) == CHOOSE k \in S : \A m \in S : k >= m

\* The first position >= i that holds no white space; Len(s) + 1 if none.
SkipWhiteSpace(s, i) ==
  IF \A k \in i..Len(s) : s[k] \in WhiteSpace THEN Len(s) + 1
  ELSE Least({k \in i..Len(s) : s[k] \notin WhiteSpace})

\* The last position of the line that holds position i.
LineEnd(s, i) ==
  IF \A k \in i..Len(s) : s[k] \notin LineTerminators THEN Len(s)
  ELSE Least({k \in i..Len(s) : s[k] \in LineTerminators}) - 1

\* String.prototype.trim.
Trim(s) ==
  IF \A k \in 1..Len(s) : s[k] \in WhiteSpace THEN <<>>
  ELSE Slice(s, Least({k \in 1..Len(s) : s[k] \notin WhiteSpace}),
                Greatest({k \in 1..Len(s) : s[k] \notin WhiteSpace}))

\* raw.replace(/\D/g, "").
RECURSIVE StripNonDigits(_)
StripNonDigits(s) ==
  IF s = <<>> THEN <<>>
  ELSE IF Head(s) \in Digits THEN <<Head(s)>> \o StripNonDigits(Tail(s))
       ELSE StripNonDigits(Tail(s))

\* --------------------------------------------------------------- regexes
\* The capture start once the label and the colon have matched: colon is the
\* colon's position and first the first position after it that holds no
\* white space.  When only white space follows the colon up to the end of
\* the text, the second \s* backtracks to the last character "." can match.
CaptureAfterColon(body, colon, first) ==
  IF first <= Len(body) THEN first
  ELSE IF \A k \in (colon + 1)..Len(body) : body[k] \in LineTerminators THEN 0
  ELSE Greatest({k \in (colon + 1)..Len(body) : body[k] \notin LineTerminators})

\* The capture start once the label has matched: colon is the first position
\* after the label that holds no white space.
CaptureAfterLabel(body, colon) ==
  IF colon > Len(body) THEN 0
  ELSE IF body[colon] # ":" THEN 0
  ELSE CaptureAfterColon(body, colon, SkipWhiteSpace(body, colon + 1))

\* Where the capture of /^<label>\s*:\s*(.+)$/im starts when the match is
\* tried at position i of body; 0 when there is no match at i.  Both \s* are
\* greedy and cross line ends.
CaptureStartAt(body, label, i) ==
  IF ~(i = 1 \/ body[i - 1] \in LineTerminators) THEN 0
  ELSE IF i + Len(label) - 1 > Len(body) THEN 0
  ELSE IF \E k \in 1..Len(label) : ToLower(body[i + k - 1]) # label[k] THEN 0
  ELSE CaptureAfterLabel(body, SkipWhiteSpace(body, i + Len(label)))

\* The capture that starts at s: "." runs to the end of the line, where $
\* matches.
CaptureFrom(body, s) == <<Slice(body, s, LineEnd(body, s))>>

\* body.match(re): <<>> when there is no match, else <<match[1]>> of the
\* leftmost match.
Match(body, label) ==
  IF \A i \in 1..Len(body) : CaptureStartAt(body, label, i) = 0 THEN <<>>
  ELSE CaptureFrom(body,
         CaptureStartAt(body, label,
           Least({i \in 1..Len(body) : CaptureStartAt(body, label, i) # 0})))

\* ------------------------------------------------------------ the parser
\* A LeadParseError's message.
MissingMessage(fieldName) ==
  <<"Could not extract \"", fieldName, "\" from email body">>

\* `Phone "${raw}" could not be normalised to E.164. Expected a 10-digit US
\* number or a number already in E.164 format (+...).`, character by character.
PhoneMessage(raw) ==
  <<"P", "h", "o", "n", "e", " ", "\"">> \o raw \o
  <<
     "\"", " ", "c", "o", "u", "l", "d", " ", "n", "o", "t", " ", "b", "e",
     " ", "n", "o", "r", "m", "a", "l", "i", "s", "e", "d", " ", "t", "o",
     " ", "E", ".", "1", "6", "4", ".", " ", "E", "x", "p", "e", "c", "t",
     "e", "d", " ", "a", " ", "1", "0", "-", "d", "i", "g", "i", "t", " ",
     "U", "S", " ", "n", "u", "m", "b", "e", "r", " ", "o", "r", " ", "a",
     " ", "n", "u", "m", "b", "e", "r", " ", "a", "l", "r", "e", "a", "d",
     "y", " ", "i", "n", " ", "E", ".", "1", "6", "4", " ", "f", "o", "r",
     "m", "a", "t", " ", "(", "+", ".", ".", ".", ")", "." >>

\* An extractField that returns the capture as it is.
FieldUntrimmed(match, fieldName) ==
  IF match = <<>> THEN [ok |-> FALSE, value |-> <<>>, message |-> MissingMessage(fieldName)]
  ELSE [ok |-> TRUE, value |-> match[1], message |-> Null]

\* The if of extractField, on the result of body.match(re).
FieldOf(match, fieldName) ==
  IF match = <<>> THEN [ok |-> FALSE, value |-> <<>>, message |-> MissingMessage(fieldName)]
  ELSE IF Trim(match[1]) = <<>>
  THEN [ok |-> FALSE, value |-> <<>>, message |-> MissingMessage(fieldName)]
  ELSE [ok |-> TRUE, value |-> Trim(match[1]), message |-> Null]

\* extractField: [ok, value, message]; ok = FALSE is the thrown LeadParseError.
extractField(body, re, fieldName) == FieldOf(Match(body, re), fieldName)

\* An E.164 test that accepts nothing: every input is stripped and counted.
NeverE164(raw) == FALSE

\* /^\+\d{7,15}$/.test(raw)
IsE164(raw) ==
  /\ Len(raw) >= 8
  /\ Len(raw) <= 16
  /\ raw[1] = "+"
  /\ \A k \in 2..Len(raw) : raw[k] \in Digits

\* The rules after the E.164 test with the plus sign left out of the result
\* for 10 digits.
PhoneOfBare(raw, digits) ==
  IF Len(digits) = 10
  THEN [ok |-> TRUE, value |-> <<"1">> \o digits, message |-> Null]
  ELSE IF Len(digits) = 11 /\ digits[1] = "1"
  THEN [ok |-> TRUE, value |-> <<"+">> \o digits, message |-> Null]
  ELSE [ok |-> FALSE, value |-> <<>>, message |-> PhoneMessage(raw)]

\* The rules after the E.164 test with any 11 digits taken as a US number.
PhoneOfLenient(raw, digits) ==
  IF Len(digits) = 10
  THEN [ok |-> TRUE, value |-> <<"+", "1">> \o digits, message |-> Null]
  ELSE IF Len(digits) = 11
  THEN [ok |-> TRUE, value |-> <<"+">> \o digits, message |-> Null]
  ELSE [ok |-> FALSE, value |-> <<>>, message |-> PhoneMessage(raw)]

\* The rules of normalizePhone after the E.164 test, on the digits left.
PhoneOf(raw, digits) ==
  IF Len(digits) = 10
  THEN [ok |-> TRUE, value |-> <<"+", "1">> \o digits, message |-> Null]
  ELSE IF Len(digits) = 11 /\ digits[1] = "1"
  THEN [ok |-> TRUE, value |-> <<"+">> \o digits, message |-> Null]
  ELSE [ok |-> FALSE, value |-> <<>>, message |-> PhoneMessage(raw)]

\* normalizePhone: [ok, value, message]; ok = FALSE is the thrown LeadParseError.
normalizePhone(raw) ==
  IF IsE164(raw) THEN [ok |-> TRUE, value |-> raw, message |-> Null]
  ELSE PhoneOf(raw, StripNonDigits(raw))

\* A failure that loses the error's message.
ParseFailureBlank(m) ==
  [ok |-> FALSE, name |-> <<>>, phone |-> <<>>, email |-> <<>>, message |-> <<>>]

ParseFailure(m) ==
  [ok |-> FALSE, name |-> <<>>, phone |-> <<>>, email |-> <<>>, message |-> m]

\* The return of parseLeadFromEmail once the three fields are there.
ParsedLead(name, phone, email) ==
  IF ~phone.ok THEN ParseFailure(phone.message)
  ELSE [ok |-> TRUE, name |-> name.value, phone |-> phone.value,
        email |-> email.value, message |-> Null]

\* A parser that extracts Email first, then Phone, then Name.
ParsedFieldsReversed(name, rawPhone, email) ==
  IF ~email.ok THEN ParseFailure(email.message)
  ELSE IF ~rawPhone.ok THEN ParseFailure(rawPhone.message)
  ELSE IF ~name.ok THEN ParseFailure(name.message)
  ELSE ParsedLead(name, normalizePhone(rawPhone.value), email)

\* The three extractField calls in their order: the first throw wins.
ParsedFields(name, rawPhone, email) ==
  IF ~name.ok THEN ParseFailure(name.message)
  ELSE IF ~rawPhone.ok THEN ParseFailure(rawPhone.message)
  ELSE IF ~email.ok THEN ParseFailure(email.message)
  ELSE ParsedLead(name, normalizePhone(rawPhone.value), email)

\* parseLeadFromEmail: Name, Phone and Email are extracted in this order and
\* the phone is normalised last.
parseLeadFromEmail(body) ==
  ParsedFields(extractField(body, NAME_RE, "Name"),
               extractField(body, PHONE_RE, "Phone"),
               extractField(body, EMAIL_RE, "Email"))

\* ------------------------------------------------------------ the tables
VARIABLES
  leads,          \* the Lead table: a sequence of rows, a row's id its index
  inboundEmails,  \* the InboundEmail table: likewise
  calls,          \* the invocations of processInboundEmail
  failures,       \* store operations that failed transiently so far
  text,           \* the argument of a parser function called on its own
  out,            \* what that call gave; NotRun before it
  again,          \* what a second call gave; NotRun before it
  twilio,         \* the messages Twilio has accepted, a message's sid its index
  messageLogs,    \* the MessageLog table: a sequence of rows
  sends,          \* the invocations of sendSms
  secret,         \* process.env.SENDGRID_INBOUND_PARSE_SECRET
  requests,       \* the requests that reached verifyWebhookSecret
  client,         \* _client of lib/twilio.ts: Null, or <<c>> holding the client c
  constructions,  \* how many times Twilio(accountSid, authToken) was called
  clientOps       \* the calls of getTwilioClient and _setTwilioClient so far

smsVars == <<twilio, messageLogs, sends>>
hookVars == <<secret, requests>>
libVars == <<client, constructions, clientOps>>
vars ==
  <<leads, inboundEmails, calls, failures, text, out, again, smsVars, hookVars, libVars>>

\* No parser function has been called on its own.
NotRun == [ok |-> FALSE, message |-> <<"not run">>]

Calls == 1..NumCalls

\* Email bodies the webhook delivers, in the version-1 layout.
NameLine(v) == <<"N", "a", "m", "e", ":", " ">> \o v
PhoneLine(v) == <<"P", "h", "o", "n", "e", ":", " ">> \o v
EmailLine(v) == <<"E", "m", "a", "i", "l", ":", " ">> \o v
LocalPhone == <<"5", "5", "5", "1", "2", "3", "4", "5", "6", "7">>
Bodies ==
  { NameLine(<<"A">>) \o <<"\n">> \o PhoneLine(LocalPhone) \o <<"\n">> \o EmailLine(<<"a">>),
    NameLine(<<"B">>) \o <<"\n">> \o PhoneLine(<<"+", "4", "4", "7", "7", "0", "0", "9">>)
      \o <<"\n">> \o EmailLine(<<"a">>),
    EmailLine(<<"b">>) \o <<"\n">> \o NameLine(<<"C">>) \o <<"\n">> \o PhoneLine(LocalPhone),
    NameLine(<<"A">>) \o <<"\n">> \o PhoneLine(LocalPhone),
    NameLine(<<"A">>) \o <<"\n">> \o PhoneLine(<<"1", "2", "3">>) \o <<"\n">> \o EmailLine(<<"a">>) }

\* The errors a call can hold: none, a LeadParseError, a store failure
\* (connection lost, timeout), the unique-constraint violation P2002, or
\* findUniqueOrThrow's NotFoundError.
NoError == [kind |-> "none", message |-> Null]
ParseError(m) == [kind |-> "LeadParseError", message |-> m]
StoreError == [kind |-> "StoreError", message |-> <<"Can't reach database server">>]
UniqueError ==
  [kind |-> "P2002", message |-> <<"Unique constraint failed on the fields: (email)">>]
NotFoundError == [kind |-> "NotFoundError", message |-> <<"No InboundEmail found">>]

NoData == [name |-> <<>>, phone |-> <<>>, email |-> <<>>]
NoResult == [inboundEmail |-> <<>>, lead |-> <<>>]
IdleCall ==
  [pc |-> "idle", id |-> 0, data |-> NoData, err |-> NoError, lead |-> <<>>,
   result |-> NoResult, snap |-> <<>>]

\* The invocations of sendSms; none has been made.
Sends == 1..NumSends
IdleSend ==
  [pc |-> "idle", leadId |-> 0, to |-> Null, body |-> Null, twilioSid |-> 0,
   messageLog |-> 0, err |-> NoError]
NoSms ==
  /\ twilio = <<>>
  /\ messageLogs = <<>>
  /\ sends = [s \in Sends |-> IdleSend]

\* let _client = null: no client was constructed and none was asked for.
NoClient ==
  /\ client = Null
  /\ constructions = 0
  /\ clientOps = <<>>

\* The secret is not set and no request has arrived.
NoHook ==
  /\ secret = Null
  /\ requests = <<>>

Finished == {"done", "threw"}
Active(p) == calls[p].pc \notin (Finished \cup {"idle", "cancelled"})

Init ==
  /\ leads = <<>>
  /\ inboundEmails = <<>>
  /\ calls = [p \in Calls |-> IdleCall]
  /\ failures = 0
  /\ text = Null
  /\ out = NotRun
  /\ again = NotRun
  /\ NoSms
  /\ NoClient
  /\ NoHook

\* saveInboundEmail: a new row with processed = false and no error.
saveInboundEmail(rawText) ==
  /\ Len(inboundEmails) < MaxEmails
  /\ inboundEmails' =
       Append(inboundEmails, [rawText |-> rawText, processed |-> FALSE, error |-> Null])
  /\ UNCHANGED <<leads, calls, failures, text, out, again, smsVars, hookVars, libVars>>

\* ----------------------------------------------------- the Lead table
\* The earlier, non-unique index "Lead_email_idx": it accepts every row.
Lead_email_idx(rows, email) == TRUE

\* The unique index "Lead_email_key": whether the table accepts a new row
\* with this email.
Lead_email_key(rows, email) == \A i \in DOMAIN rows : rows[i].email # email

\* A lookup that never finds the row.
NeverFound(rows, email) == <<>>

\* findUnique({ where: { email } }): <<>> or <<row>>.
FindLead(rows, email) ==
  LET hit == {i \in DOMAIN rows : rows[i].email = email}
  IN IF hit = {} THEN <<>> ELSE <<rows[CHOOSE i \in hit : TRUE]>>

\* create: { name, email, phone }
NewLead(rows, data) ==
  [id |-> Len(rows) + 1, name |-> data.name, email |-> data.email, phone |-> data.phone]

\* An upsert whose update overwrites the row: update: { name, phone }.
UpsertOverwrite(rows, row, data) ==
  [i \in DOMAIN rows |->
     IF i = row.id THEN [rows[i] EXCEPT !.name = data.name, !.phone = data.phone]
     ELSE rows[i]]

\* update: {} of the upsert: the table after the update of an existing row.
UpsertUpdate(rows, row, data) == rows

\* ------------------------------------------------- processInboundEmail
\* A guard that never short-circuits.
NeverProcessed(row) == FALSE

\* if (inboundEmail.processed) return ...
AlreadyProcessed(row) == row.processed

\* A catch block that marks every failure processed.
CatchAlwaysProcessed(err) == [processed |-> TRUE, error |-> err.message]

\* A catch block that leaves every failure unprocessed.
CatchNeverProcessed(err) == [processed |-> FALSE, error |-> err.message]

\* data: { processed: isParseError, error: errorMessage } of the catch block.
\* Every error modelled is an Error, so errorMessage is its message.
CatchData(err) == [processed |-> err.kind = "LeadParseError", error |-> err.message]

\* A success path that leaves the error column as it is.
SuccessKeepsError(row) == [row EXCEPT !.processed = TRUE]

\* A success path that clears the error and leaves the flag as it is.
SuccessKeepsFlag(row) == [row EXCEPT !.error = Null]

\* A success path that also blanks the stored text.
SuccessErasesText(row) == [row EXCEPT !.processed = TRUE, !.error = Null, !.rawText = <<>>]

\* data: { processed: true, error: null } of the success path.
SuccessData(row) == [row EXCEPT !.processed = TRUE, !.error = Null]

\* The two tables as they are when a call starts for a row that is processed
\* while no other call is running: the state the last call for that row left.
SnapAt(p, id) ==
  IF /\ \A q \in Calls : ~Active(q)
     /\ id \in DOMAIN inboundEmails
     /\ inboundEmails[id].processed
  THEN <<leads, inboundEmails>>
  ELSE <<>>

\* A load that, for an id no row has, stores a row and returns it.
LoadCreatesMissing(p, id) ==
  /\ calls[p].pc = "idle"
  /\ id \notin DOMAIN inboundEmails
  /\ inboundEmails' =
       Append(inboundEmails, [rawText |-> <<>>, processed |-> TRUE, error |-> Null])
  /\ calls' = [calls EXCEPT ![p] =
       [@ EXCEPT !.pc = "done", !.id = id,
                 !.result = [inboundEmail |-> <<inboundEmails'[Len(inboundEmails')]>>,
                             lead |-> <<>>]]]
  /\ UNCHANGED <<leads, failures, text, out, again, smsVars, hookVars, libVars>>

\* Lines 59-74: the call is made with id; findUniqueOrThrow reads the row;
\* the guard returns at once for a processed row; otherwise the body is
\* parsed, and the call goes on to the upsert or to the catch block.
Load(p, id) ==
  /\ calls[p].pc = "idle"
  /\ \A q \in 1..(p - 1) : calls[q].pc # "idle"
  /\ LET c == [calls[p] EXCEPT !.id = id, !.snap = SnapAt(p, id)]
     IN \/ /\ id \notin DOMAIN inboundEmails
           /\ calls' = [calls EXCEPT ![p] = [c EXCEPT !.pc = "threw", !.err = NotFoundError]]
        \/ /\ id \in DOMAIN inboundEmails
           /\ AlreadyProcessed(inboundEmails[id])
           /\ calls' = [calls EXCEPT ![p] =
                [c EXCEPT !.pc = "done",
                          !.result = [inboundEmail |-> <<inboundEmails[id]>>, lead |-> <<>>]]]
        \/ /\ id \in DOMAIN inboundEmails
           /\ ~AlreadyProcessed(inboundEmails[id])
           /\ \E parsed \in {parseLeadFromEmail(inboundEmails[id].rawText)} :
                calls' = [calls EXCEPT ![p] =
                   IF parsed.ok
                   THEN [c EXCEPT !.pc = "upsert",
                                  !.data = [name |-> parsed.name, phone |-> parsed.phone,
                                            email |-> parsed.email]]
                   ELSE [c EXCEPT !.pc = "catch", !.err = ParseError(parsed.message)]]
  /\ UNCHANGED <<leads, inboundEmails, failures, text, out, again, smsVars, hookVars, libVars>>

\* Line 62 when the store fails: the error leaves the function.
LoadFails(p, id) ==
  /\ calls[p].pc = "idle"
  /\ \A q \in 1..(p - 1) : calls[q].pc # "idle"
  /\ id \in DOMAIN inboundEmails
  /\ failures < MaxFailures
  /\ failures' = failures + 1
  /\ calls' = [calls EXCEPT ![p] =
       [@ EXCEPT !.pc = "threw", !.id = id, !.err = StoreError, !.snap = SnapAt(p, id)]]
  /\ UNCHANGED <<leads, inboundEmails, text, out, again, smsVars, hookVars, libVars>>

\* Lines 76-82, the upsert run by the database as one statement
\* (INSERT ... ON CONFLICT): the row with this email, created if absent.
UpsertNative(p) ==
  /\ calls[p].pc = "upsert"
  /\ LET found == FindLead(leads, calls[p].data.email)
     IN IF found # <<>>
        THEN /\ leads' = UpsertUpdate(leads, found[1], calls[p].data)
             /\ calls' = [calls EXCEPT ![p] =
                  [@ EXCEPT !.pc = "update", !.lead = FindLead(leads', calls[p].data.email)]]
        ELSE /\ leads' = Append(leads, NewLead(leads, calls[p].data))
             /\ calls' = [calls EXCEPT ![p] =
                  [@ EXCEPT !.pc = "update", !.lead = <<NewLead(leads, calls[p].data)>>]]
  /\ UNCHANGED <<inboundEmails, failures, text, out, again, smsVars, hookVars, libVars>>

\* Lines 76-82, the upsert run by the client as a read and then a write:
\* the read.  An existing row is updated with update: {}.
UpsertFind(p) ==
  /\ calls[p].pc = "upsert"
  /\ LET found == FindLead(leads, calls[p].data.email)
     IN IF found # <<>>
        THEN /\ leads' = UpsertUpdate(leads, found[1], calls[p].data)
             /\ calls' = [calls EXCEPT ![p] =
                  [@ EXCEPT !.pc = "update", !.lead = FindLead(leads', calls[p].data.email)]]
        ELSE /\ leads' = leads
             /\ calls' = [calls EXCEPT ![p] = [@ EXCEPT !.pc = "create"]]
  /\ UNCHANGED <<inboundEmails, failures, text, out, again, smsVars, hookVars, libVars>>

\* The write of that upsert: the unique index accepts the row, or refuses
\* it with P2002 when another call created the email in between.
UpsertCreate(p) ==
  /\ calls[p].pc = "create"
  /\ IF Lead_email_key(leads, calls[p].data.email)
     THEN /\ leads' = Append(leads, NewLead(leads, calls[p].data))
          /\ calls' = [calls EXCEPT ![p] =
               [@ EXCEPT !.pc = "update", !.lead = <<NewLead(leads, calls[p].data)>>]]
     ELSE /\ leads' = leads
          /\ calls' = [calls EXCEPT ![p] = [@ EXCEPT !.pc = "catch", !.err = UniqueError]]
  /\ UNCHANGED <<inboundEmails, failures, text, out, again, smsVars, hookVars, libVars>>

\* Lines 76-82 when the store fails: nothing is written.
UpsertFails(p) ==
  /\ calls[p].pc \in {"upsert", "create"}
  /\ failures < MaxFailures
  /\ failures' = failures + 1
  /\ calls' = [calls EXCEPT ![p] = [@ EXCEPT !.pc = "catch", !.err = StoreError]]
  /\ UNCHANGED <<leads, inboundEmails, text, out, again, smsVars, hookVars, libVars>>

\* Lines 84-89: the row is marked processed and the call returns it with
\* the lead.
MarkProcessed(p) ==
  /\ calls[p].pc = "update"
  /\ inboundEmails' =
       [inboundEmails EXCEPT ![calls[p].id] = SuccessData(inboundEmails[calls[p].id])]
  /\ calls' = [calls EXCEPT ![p] =
       [@ EXCEPT !.pc = "done",
                 !.result = [inboundEmail |-> <<inboundEmails'[calls[p].id]>>,
                             lead |-> calls[p].lead]]]
  /\ UNCHANGED <<leads, failures, text, out, again, smsVars, hookVars, libVars>>

\* Lines 84-87 when the store fails: nothing is written.
MarkProcessedFails(p) ==
  /\ calls[p].pc = "update"
  /\ failures < MaxFailures
  /\ failures' = failures + 1
  /\ calls' = [calls EXCEPT ![p] = [@ EXCEPT !.pc = "catch", !.err = StoreError]]
  /\ UNCHANGED <<leads, inboundEmails, text, out, again, smsVars, hookVars, libVars>>

\* Lines 90-105: the catch block records the error on the row and the call
\* returns the row with no lead.
RecordError(p) ==
  /\ calls[p].pc = "catch"
  /\ inboundEmails' =
       [inboundEmails EXCEPT ![calls[p].id] =
          [@ EXCEPT !.processed = CatchData(calls[p].err).processed,
                    !.error = CatchData(calls[p].err).error]]
  /\ calls' = [calls EXCEPT ![p] =
       [@ EXCEPT !.pc = "done",
                 !.result = [inboundEmail |-> <<inboundEmails'[calls[p].id]>>,
                             lead |-> <<>>]]]
  /\ UNCHANGED <<leads, failures, text, out, again, smsVars, hookVars, libVars>>

\* Lines 94-102 when the store fails: the error leaves the function.
RecordErrorFails(p) ==
  /\ calls[p].pc = "catch"
  /\ failures < MaxFailures
  /\ failures' = failures + 1
  /\ calls' = [calls EXCEPT ![p] = [@ EXCEPT !.pc = "threw", !.err = StoreError]]
  /\ UNCHANGED <<leads, inboundEmails, text, out, again, smsVars, hookVars, libVars>>

\* The ids a call is made with: those of the rows, and one no row has.
CallIds == DOMAIN inboundEmails \cup {MaxEmails + 1}

processInboundEmail(p) ==
  \/ \E id \in CallIds : Load(p, id)
  \/ \E id \in CallIds : LoadFails(p, id)
  \/ UpsertNative(p)
  \/ UpsertFind(p)
  \/ UpsertCreate(p)
  \/ UpsertFails(p)
  \/ MarkProcessed(p)
  \/ MarkProcessedFails(p)
  \/ RecordError(p)
  \/ RecordErrorFails(p)

Next ==
  \/ \E rawText \in Bodies : saveInboundEmail(rawText)
  \/ \E p \in Calls : processInboundEmail(p)

Spec == Init /\ [][Next]_vars

\* The caller cancels a call, or the process dies, between two awaits of
\* lines 73-105: the call stops where it is and runs no further step, the
\* catch block included.
Interrupt(p) ==
  /\ calls[p].pc \in {"upsert", "create", "update", "catch"}
  /\ calls' = [calls EXCEPT ![p] = [@ EXCEPT !.pc = "cancelled"]]
  /\ UNCHANGED <<leads, inboundEmails, failures, text, out, again, smsVars, hookVars, libVars>>

NextInterrupted ==
  \/ \E rawText \in Bodies : saveInboundEmail(rawText)
  \/ \E p \in Calls : processInboundEmail(p)
  \/ \E p \in Calls : Interrupt(p)

\* The pipeline with calls that can be cancelled.
InterruptSpec == Init /\ [][NextInterrupted]_vars

\* The caller takes the outcome of a call, and the slot is free for the next
\* invocation: the webhook's retries and manual re-processing call
\* processInboundEmail again and again.
Return(p) ==
  /\ calls[p].pc \in Finished
  /\ calls' = [calls EXCEPT ![p] = IdleCall]
  /\ UNCHANGED <<leads, inboundEmails, failures, text, out, again, smsVars, hookVars, libVars>>

\* One row has been saved and no call made yet.
RetryInit ==
  /\ leads = <<>>
  /\ \E rawText \in Bodies :
       inboundEmails = <<[rawText |-> rawText, processed |-> FALSE, error |-> Null]>>
  /\ calls = [p \in Calls |-> IdleCall]
  /\ failures = 0
  /\ text = Null
  /\ out = NotRun
  /\ again = NotRun
  /\ NoSms
  /\ NoClient
  /\ NoHook

\* The store can fail again after it has worked: without this the store
\* would fail MaxFailures times in all.
Recover ==
  /\ failures > 0
  /\ failures' = 0
  /\ UNCHANGED <<leads, inboundEmails, calls, text, out, again, smsVars, hookVars, libVars>>

NextRetried ==
  \/ \E p \in Calls : processInboundEmail(p)
  \/ \E p \in Calls : Return(p)
  \/ Recover

\* A step of a call in which the store does what it is asked.
Proceed(p) ==
  \/ UpsertNative(p)
  \/ UpsertFind(p)
  \/ UpsertCreate(p)
  \/ MarkProcessed(p)
  \/ RecordError(p)

\* A running call goes on and its caller takes its outcome: the event loop
\* resumes every awaited store operation that has settled.  Nothing obliges
\* the store to fail, nor to stop failing.
RetryFairness ==
  \A p \in Calls : WF_vars(Proceed(p)) /\ WF_vars(Return(p))

\* The pipeline with one row and calls repeated for ever.
RetrySpec == RetryInit /\ [][NextRetried]_vars /\ RetryFairness

\* ------------------------------------------------- the parser on its own
\* Lines of forwarded emails: the three labels in several casings and
\* spacings, with a value, with none and with white space only; a phone
\* that cannot be normalised; a line of a forwarding banner; an empty line.
ParserLines ==
  { <<"n", "a", "m", "e", " ", ":", " ", " ", "B", " ">>,
    NameLine(<<"A">>),
    <<"N", "a", "m", "e", ":">>,
    PhoneLine(LocalPhone),
    <<"P", "H", "O", "N", "E", ":", "1", "2", "3">>,
    <<"P", "h", "o", "n", "e", ":", " ">>,
    EmailLine(<<"a">>),
    <<"E", "m", "a", "i", "l", ":">>,
    <<"H", "i">>,
    <<>> }

\* The texts of n lines.
RECURSIVE TextsOfLength(_)
TextsOfLength(n) ==
  IF n = 0 THEN {<<>>}
  ELSE IF n = 1 THEN ParserLines
  ELSE {t \o <<"\n">> \o l : t \in TextsOfLength(n - 1), l \in ParserLines}

Texts == UNION {TextsOfLength(n) : n \in 0..MaxLines}

\* Nothing is stored and no call is made: a text is at hand.
ParserInit ==
  /\ leads = <<>>
  /\ inboundEmails = <<>>
  /\ calls = [p \in Calls |-> IdleCall]
  /\ failures = 0
  /\ text \in Texts
  /\ out = NotRun
  /\ again = NotRun
  /\ NoSms
  /\ NoClient
  /\ NoHook

\* parseLeadFromEmail(text) is called.
Parse ==
  /\ out = NotRun
  /\ out' = parseLeadFromEmail(text)
  /\ UNCHANGED <<leads, inboundEmails, calls, failures, text, again, smsVars, hookVars, libVars>>

ParserNext == Parse

ParserSpec == ParserInit /\ [][ParserNext]_vars

\* parseLeadFromEmail(text) is called a second time.
ParseAgain ==
  /\ out # NotRun
  /\ again = NotRun
  /\ again' = parseLeadFromEmail(text)
  /\ UNCHANGED <<leads, inboundEmails, calls, failures, text, out, smsVars, hookVars, libVars>>

ParserAgainNext == Parse \/ ParseAgain

ParserAgainSpec == ParserInit /\ [][ParserAgainNext]_vars

\* -------------------------------------------- normalizePhone on its own
\* The phone texts of the tests and of the header comment.
PhoneExamples ==
  { <<"5", "5", "5", "-", "1", "2", "3", "-", "4", "5", "6", "7">>,
    <<"(", "5", "5", "5", ")", " ", "1", "2", "3", "-", "4", "5", "6", "7">>,
    <<"5", "5", "5", "1", "2", "3", "4", "5", "6", "7">>,
    <<"1", "5", "5", "5", "1", "2", "3", "4", "5", "6", "7">>,
    <<"1", "-", "5", "5", "5", "-", "1", "2", "3", "-", "4", "5", "6", "7">>,
    <<"+", "4", "4", "7", "7", "0", "0", "9", "0", "0", "1", "2", "3">>,
    <<"+", "1", "5", "5", "5", "1", "2", "3", "4", "5", "6", "7">>,
    <<"5", "5", "5", ".", "1", "2", "3", ".", "4", "5", "6", "7">>,
    <<"5", "5", "5", " ", "1", "2", "3", " ", "4", "5", "6", "7">>,
    <<"+", "1", "2", "3", "4", "5", "6", "7">>,
    <<"5", "5", "5", "1", "2", "3", "4", "5", "6">>,
    <<"5", "5", "5", "1", "2", "3", "4", "5", "6", "7", "8", "9">>,
    <<"2", "5", "5", "5", "1", "2", "3", "4", "5", "6", "7">>,
    <<"n", "o", "t", "-", "a", "-", "p", "h", "o", "n", "e">>,
    <<"5", "5", "5", "-", "A", "B", "C", "-", "4", "5", "6", "7">>,
    <<>> }

\* n times the digit 5.
RECURSIVE Fives(_)
Fives(n) == IF n = 0 THEN <<>> ELSE <<"5">> \o Fives(n - 1)

\* Phone texts by shape: with or without a plus sign and a leading 1, from
\* no digit to MaxDigits digits, with or without a letter at the end.
PhoneShapes ==
  {prefix \o Fives(n) \o suffix :
     prefix \in {<<>>, <<"+">>, <<"1">>, <<"+", "1">>},
     n \in 0..MaxDigits,
     suffix \in {<<>>, <<"x">>}}

Phones == PhoneExamples \cup PhoneShapes

\* Nothing is stored and no call is made: a phone text is at hand.
PhoneInit ==
  /\ leads = <<>>
  /\ inboundEmails = <<>>
  /\ calls = [p \in Calls |-> IdleCall]
  /\ failures = 0
  /\ text \in Phones
  /\ out = NotRun
  /\ again = NotRun
  /\ NoSms
  /\ NoClient
  /\ NoHook

\* normalizePhone(text) is called.
Normalize ==
  /\ out = NotRun
  /\ out' = normalizePhone(text)
  /\ UNCHANGED <<leads, inboundEmails, calls, failures, text, again, smsVars, hookVars, libVars>>

PhoneNext == Normalize

PhoneSpec == PhoneInit /\ [][PhoneNext]_vars

\* normalizePhone is called on what normalizePhone(text) returned.
NormalizeAgain ==
  /\ out # NotRun
  /\ out.ok
  /\ again = NotRun
  /\ again' = normalizePhone(out.value)
  /\ UNCHANGED <<leads, inboundEmails, calls, failures, text, out, smsVars, hookVars, libVars>>

PhoneAgainNext == Normalize \/ NormalizeAgain

PhoneAgainSpec == PhoneInit /\ [][PhoneAgainNext]_vars

\* ------------------------------------- one email, whatever its phone text
\* A body whose values have white space around them and whose phone is the
\* given text.
IntakeBody(phone) ==
  NameLine(<<" ", "A", " ">>) \o <<"\n">> \o PhoneLine(phone \o <<" ">>) \o <<"\n">>
    \o EmailLine(<<"a", " ", " ">>)

\* One row has been saved, with any of the phone texts, and no call made yet.
IntakeInit ==
  /\ leads = <<>>
  /\ \E phone \in Phones :
       inboundEmails = <<[rawText |-> IntakeBody(phone), processed |-> FALSE, error |-> Null]>>
  /\ calls = [p \in Calls |-> IdleCall]
  /\ failures = 0
  /\ text = Null
  /\ out = NotRun
  /\ again = NotRun
  /\ NoSms
  /\ NoClient
  /\ NoHook

IntakeNext == \E p \in Calls : processInboundEmail(p)

IntakeSpec == IntakeInit /\ [][IntakeNext]_vars

\* ------------------------------------------------- verifyWebhookSecret
\* An environment variable or a header is absent (undefined), <<>>, or
\* holds one string v, <<v>>.
Undefined == <<>>
SECRET == <<"test-secret-value">>

\* What process.env.SENDGRID_INBOUND_PARSE_SECRET can hold.
Secrets == {Undefined, <<"">>, SECRET, <<"rotated-secret">>}

\* What req.headers["x-webhook-secret"] can hold; a header sent twice
\* arrives as one string, the values joined by a comma.
Headers ==
  {Undefined, <<"">>, SECRET, <<"wrong-value">>, <<"TEST-SECRET-VALUE">>,
   <<"test-secret-value, test-secret-value">>}

\* !x for x a string or undefined.
Falsy(x) == x = Undefined \/ x = <<"">>

NoResponse == [statusCode |-> 0, body |-> [success |-> TRUE, error |-> ""], nextCalls |-> 0]

\* A middleware without the guard on the environment variable.
VerdictUnguarded(env, provided) ==
  IF Falsy(provided) \/ provided # env
  THEN [statusCode |-> 401, body |-> [success |-> FALSE, error |-> "Unauthorized"],
        nextCalls |-> 0]
  ELSE [NoResponse EXCEPT !.nextCalls = 1]

\* What verifyWebhookSecret does to res and next, given the environment
\* variable and the header.
Verdict(env, provided) ==
  IF Falsy(env)
  THEN [statusCode |-> 500,
        body |-> [success |-> FALSE, error |-> "Webhook secret is not configured"],
        nextCalls |-> 0]
  ELSE IF Falsy(provided) \/ provided # env
  THEN [statusCode |-> 401, body |-> [success |-> FALSE, error |-> "Unauthorized"],
        nextCalls |-> 0]
  ELSE [NoResponse EXCEPT !.nextCalls = 1]

\* The environment variable is set, changed or deleted.
SetSecret(v) ==
  /\ secret # v
  /\ secret' = v
  /\ UNCHANGED <<leads, inboundEmails, calls, failures, text, out, again, smsVars, requests, libVars>>

\* POST /webhooks/inbound-email arrives with its header.
Receive(provided) ==
  /\ Len(requests) < MaxRequests
  /\ requests' = Append(requests, [provided |-> provided, pc |-> "arrived", res |-> NoResponse])
  /\ UNCHANGED <<leads, inboundEmails, calls, failures, text, out, again, smsVars, secret, libVars>>

\* verifyWebhookSecret(req, res, next) runs for request r.
verifyWebhookSecret(r) ==
  /\ requests[r].pc = "arrived"
  /\ requests' = [requests EXCEPT ![r] =
                    [@ EXCEPT !.pc = "verified", !.res = Verdict(secret, requests[r].provided)]]
  /\ UNCHANGED <<leads, inboundEmails, calls, failures, text, out, again, smsVars, secret, libVars>>

HookInit ==
  /\ leads = <<>>
  /\ inboundEmails = <<>>
  /\ calls = [p \in Calls |-> IdleCall]
  /\ failures = 0
  /\ text = Null
  /\ out = NotRun
  /\ again = NotRun
  /\ NoSms
  /\ NoClient
  /\ secret \in Secrets
  /\ requests = <<>>

HookNext ==
  \/ \E v \in Secrets : SetSecret(v)
  \/ \E provided \in Headers : Receive(provided)
  \/ \E r \in 1..MaxRequests : r <= Len(requests) /\ verifyWebhookSecret(r)

HookSpec == HookInit /\ [][HookNext]_vars

\* ------------------------------------------ POST /webhooks/inbound-email
\* Bodies of deliveries: one that parses, and one without its Email line.
GoodBody ==
  NameLine(<<"A">>) \o <<"\n">> \o PhoneLine(LocalPhone) \o <<"\n">> \o EmailLine(<<"a">>)
BadBody == NameLine(<<"A">>) \o <<"\n">> \o PhoneLine(LocalPhone)

\* req.body as express.urlencoded leaves it; text and html are absent,
\* <<>>, or hold one string, <<v>>.
Payload(from, txt, html) == [from |-> from, text |-> txt, html |-> html]
Payloads ==
  { Payload("lead@example.com", <<GoodBody>>, Undefined),
    Payload("lead@example.com", <<BadBody>>, Undefined),
    Payload("lead@example.com", Undefined, <<GoodBody>>),
    Payload("", <<GoodBody>>, Undefined),
    Payload("lead@example.com", Undefined, Undefined) }

\* A string that is there and not empty.
Truthy(x) == x # Undefined /\ x[1] # <<>>

\* inboundEmailSchema.safeParse(req.body).success
ValidPayload(body) ==
  /\ body.from # ""
  /\ Truthy(body.text) \/ Truthy(body.html)

\* input.text ?? input.html ?? ""
RawTextOf(body) ==
  IF body.text # Undefined THEN body.text[1]
  ELSE IF body.html # Undefined THEN body.html[1]
  ELSE <<>>

\* The headers of the deliveries.
DeliveryHeaders == {Undefined, SECRET, <<"wrong-value">>}

\* A delivery arrives at the route with its header and its body.
Deliver(provided, body) ==
  /\ Len(requests) < MaxRequests
  /\ requests' = Append(requests,
       [provided |-> provided, pc |-> "arrived", res |-> NoResponse, body |-> body,
        savedId |-> 0, sent |-> <<>>])
  /\ UNCHANGED <<leads, inboundEmails, calls, failures, text, out, again, smsVars, secret, libVars>>

\* A route that hands every request on, whatever the middleware answered.
PassedUnchecked(r) == requests[r].pc = "verified"

\* The route hands the request to handleInboundEmail once the middleware
\* has called next().
Passed(r) == requests[r].pc = "verified" /\ requests[r].res.nextCalls = 1

\* res.status(code).json(response)
Responded(req, code, response) ==
  [req EXCEPT !.pc = "responded", !.res.statusCode = code, !.res.body = response,
              !.sent = Append(@, code)]

\* Lines 33-42: the payload is invalid.
HandleInvalid(r) ==
  /\ Passed(r)
  /\ ~ValidPayload(requests[r].body)
  /\ requests' = [requests EXCEPT ![r] =
       Responded(@, 400, [success |-> FALSE, error |-> "validation issues"])]
  /\ UNCHANGED <<leads, inboundEmails, calls, failures, text, out, again, smsVars, secret, libVars>>

\* A row stored as already processed.
CreatedProcessed(body) == [rawText |-> RawTextOf(body), processed |-> TRUE, error |-> Null]

\* prisma.inboundEmail.create of saveInboundEmail: the row it stores.
Created(body) == [rawText |-> RawTextOf(body), processed |-> FALSE, error |-> Null]

\* Lines 44-47: saveInboundEmail stores the row with processed = false.
HandleSave(r) ==
  /\ Passed(r)
  /\ ValidPayload(requests[r].body)
  /\ inboundEmails' = Append(inboundEmails, Created(requests[r].body))
  /\ requests' = [requests EXCEPT ![r] =
       [@ EXCEPT !.pc = "process", !.savedId = Len(inboundEmails) + 1]]
  /\ UNCHANGED <<leads, calls, failures, text, out, again, smsVars, secret, libVars>>

\* Lines 48-55: the save fails.
HandleSaveFails(r) ==
  /\ Passed(r)
  /\ ValidPayload(requests[r].body)
  /\ failures < MaxFailures
  /\ failures' = failures + 1
  /\ requests' = [requests EXCEPT ![r] =
       Responded(@, 500, [success |-> FALSE, error |-> "Failed to save inbound email"])]
  /\ UNCHANGED <<leads, inboundEmails, calls, text, out, again, smsVars, secret, libVars>>

\* The call of processInboundEmail made for the row of request r.
CallsOf(r) == {p \in Calls : calls[p].pc # "idle" /\ calls[p].id = requests[r].savedId}

\* Line 60: processInboundEmail(savedId) is called.
HandleProcess(r) ==
  /\ requests[r].pc = "process"
  /\ CallsOf(r) = {}
  /\ \E p \in Calls : Load(p, requests[r].savedId) \/ LoadFails(p, requests[r].savedId)

\* The steps of a call after its load.
Continue(p) ==
  \/ UpsertNative(p)
  \/ UpsertFind(p)
  \/ UpsertCreate(p)
  \/ UpsertFails(p)
  \/ MarkProcessed(p)
  \/ MarkProcessedFails(p)
  \/ RecordError(p)
  \/ RecordErrorFails(p)

\* Lines 62-72: the call returned and the row it returned is sent with 200.
HandleRespond(r) ==
  /\ requests[r].pc = "process"
  /\ \E p \in CallsOf(r) :
       /\ calls[p].pc = "done"
       /\ requests' = [requests EXCEPT ![r] =
            Responded(@, 200, [success |-> TRUE, data |-> calls[p].result.inboundEmail])]
  /\ UNCHANGED <<leads, inboundEmails, calls, failures, text, out, again, smsVars, secret, libVars>>

\* Line 60 when processInboundEmail rejects: the await throws, nothing
\* catches it and the handler's promise rejects, which Express 4 does not
\* observe: no response is written.
HandleRejects(r) ==
  /\ requests[r].pc = "process"
  /\ \E p \in CallsOf(r) : calls[p].pc = "threw"
  /\ requests' = [requests EXCEPT ![r] = [@ EXCEPT !.pc = "rejected"]]
  /\ UNCHANGED <<leads, inboundEmails, calls, failures, text, out, again, smsVars, secret, libVars>>

handleInboundEmail(r) ==
  \/ HandleInvalid(r)
  \/ HandleSave(r)
  \/ HandleSaveFails(r)
  \/ HandleProcess(r)
  \/ HandleRespond(r)
  \/ HandleRejects(r)

\* The server is up with the secret set, or without it.
WebhookInit ==
  /\ leads = <<>>
  /\ inboundEmails = <<>>
  /\ calls = [p \in Calls |-> IdleCall]
  /\ failures = 0
  /\ text = Null
  /\ out = NotRun
  /\ again = NotRun
  /\ NoSms
  /\ NoClient
  /\ secret \in {SECRET, Undefined}
  /\ requests = <<>>

WebhookNext ==
  \/ \E provided \in DeliveryHeaders, body \in Payloads : Deliver(provided, body)
  \/ \E r \in DOMAIN requests : verifyWebhookSecret(r)
  \/ \E r \in DOMAIN requests : handleInboundEmail(r)
  \/ \E p \in Calls : Continue(p)

WebhookSpec == WebhookInit /\ [][WebhookNext]_vars

\* ----------------------------------------------------------- lib/twilio.ts
\* The client the k-th call of Twilio(accountSid, authToken) constructs.
Constructed(k) == [made |-> "Twilio", n |-> k]

\* The clients a test injects with _setTwilioClient.
Mocks == {[made |-> "mock", n |-> 1], [made |-> "mock", n |-> 2]}

\* A getter that constructs a client on every call.
EagerClient == Constructed(constructions + 1)

\* Lines 31-39: the client getTwilioClient returns, constructed when
\* _client is null.
LazyClient == IF client = Null THEN Constructed(constructions + 1) ELSE client[1]

\* What a call of getTwilioClient does to the module's state.
GetClient ==
  /\ client' = <<LazyClient>>
  /\ constructions' =
       IF client' = <<Constructed(constructions + 1)>> THEN constructions + 1
       ELSE constructions
  /\ clientOps' = Append(clientOps, [op |-> "get", client |-> client'])

\* getTwilioClient() called on its own.
getTwilioClient ==
  /\ Len(clientOps) < MaxOps
  /\ GetClient
  /\ UNCHANGED <<leads, inboundEmails, calls, failures, text, out, again, smsVars, hookVars>>

\* The arguments of _setTwilioClient: null, or a client.
Injected == {Null} \cup {<<m>> : m \in Mocks}

\* _setTwilioClient(c), lines 46-48.
SetTwilioClient(c) ==
  /\ Len(clientOps) < MaxOps
  /\ client' = c
  /\ clientOps' = Append(clientOps, [op |-> "set", client |-> c])
  /\ UNCHANGED <<leads, inboundEmails, calls, failures, text, out, again, smsVars, hookVars,
                 constructions>>

ClientNext ==
  \/ getTwilioClient
  \/ \E c \in Injected : SetTwilioClient(c)

ClientSpec == Init /\ [][ClientNext]_vars

\* ---------------------------------------------------------------- sendSms
\* process.env.TWILIO_PHONE_NUMBER
TWILIO_PHONE_NUMBER == "+18005550000"
TO == "+15551234567"
LeadIds == {"lead-uuid-001", "lead-uuid-002"}
SmsBodies == {"Hi there, following up on your inquiry.", "Are you still interested?"}

SmsSendError(to) ==
  [kind |-> "SmsSendError", message |-> <<"Failed to send SMS to ", to, ": ", "Twilio error">>]

\* sendSms(leadId, to, body) is called: it gets the client and
\* client.messages.create is awaited.
CallSend(s, leadId, to, body) ==
  /\ sends[s].pc = "idle"
  /\ GetClient
  /\ sends' = [sends EXCEPT ![s] =
                 [IdleSend EXCEPT !.pc = "create", !.leadId = leadId, !.to = to, !.body = body]]
  /\ UNCHANGED <<leads, inboundEmails, calls, failures, text, out, again, twilio,
                 messageLogs, hookVars>>

\* Twilio accepts the message and returns its sid.
TwilioAccepts(s) ==
  /\ sends[s].pc = "create"
  /\ twilio' = Append(twilio, [to |-> sends[s].to, from |-> TWILIO_PHONE_NUMBER,
                                body |-> sends[s].body])
  /\ sends' = [sends EXCEPT ![s] = [@ EXCEPT !.pc = "log", !.twilioSid = Len(twilio) + 1]]
  /\ UNCHANGED <<leads, inboundEmails, calls, failures, text, out, again, messageLogs,
                 hookVars, libVars>>

\* A send that records the rejected message before it throws.
TwilioRejectsLogged(s) ==
  /\ sends[s].pc = "create"
  /\ messageLogs' = Append(messageLogs, [leadId |-> sends[s].leadId,
                                          direction |-> "OUTBOUND", body |-> sends[s].body])
  /\ sends' = [sends EXCEPT ![s] =
                 [@ EXCEPT !.pc = "threw", !.err = SmsSendError(sends[s].to)]]
  /\ UNCHANGED <<leads, inboundEmails, calls, failures, text, out, again, twilio, hookVars, libVars>>

\* Twilio rejects the request: the catch block throws SmsSendError.
TwilioRejects(s) ==
  /\ sends[s].pc = "create"
  /\ sends' = [sends EXCEPT ![s] =
                 [@ EXCEPT !.pc = "threw", !.err = SmsSendError(sends[s].to)]]
  /\ UNCHANGED <<leads, inboundEmails, calls, failures, text, out, again, twilio,
                 messageLogs, hookVars, libVars>>

\* prisma.messageLog.create succeeds and sendSms returns.
LogCreate(s) ==
  /\ sends[s].pc = "log"
  /\ messageLogs' = Append(messageLogs, [leadId |-> sends[s].leadId,
                                          direction |-> "OUTBOUND", body |-> sends[s].body])
  /\ sends' = [sends EXCEPT ![s] = [@ EXCEPT !.pc = "done", !.messageLog = Len(messageLogs) + 1]]
  /\ UNCHANGED <<leads, inboundEmails, calls, failures, text, out, again, twilio, hookVars, libVars>>

\* A failed write that is reported as a failed send.
LogCreateFailsAsSend(s) ==
  /\ sends[s].pc = "log"
  /\ sends' = [sends EXCEPT ![s] =
                 [@ EXCEPT !.pc = "threw", !.err = SmsSendError(sends[s].to)]]
  /\ UNCHANGED <<leads, inboundEmails, calls, failures, text, out, again, twilio,
                 messageLogs, hookVars, libVars>>

\* prisma.messageLog.create rejects (connection lost, no such lead): the
\* error leaves sendSms as it is.
LogCreateFails(s) ==
  /\ sends[s].pc = "log"
  /\ sends' = [sends EXCEPT ![s] = [@ EXCEPT !.pc = "threw", !.err = StoreError]]
  /\ UNCHANGED <<leads, inboundEmails, calls, failures, text, out, again, twilio,
                 messageLogs, hookVars, libVars>>

sendSms(s) ==
  \/ \E leadId \in LeadIds, body \in SmsBodies : CallSend(s, leadId, TO, body)
  \/ TwilioAccepts(s)
  \/ TwilioRejects(s)
  \/ LogCreate(s)
  \/ LogCreateFails(s)

SmsNext == \E s \in Sends : sendSms(s)

SmsSpec == Init /\ [][SmsNext]_vars

\* ------------------------------------------------------------ the claims
\* What parseLeadFromEmail makes of row i's body.
ParsedRow(i) == parseLeadFromEmail(inboundEmails[i].rawText)

\* The rows of the Lead table with this email.
LeadsWith(email) == {i \in DOMAIN leads : leads[i].email = email}

\* The call ran into no store failure: neither a transient one nor P2002.
StoreWorked(p) == calls[p].err.kind \in {"none", "LeadParseError"}

\* C1: a row's processed flag never goes from true back to false, whatever
\* the interleaving of the calls.
C1_ProcessedNeverReset ==
  [][\A i \in DOMAIN inboundEmails :
       inboundEmails[i].processed => inboundEmails'[i].processed]_vars

\* C2: the Lead table never holds two rows with the same email.
C2_OneLeadPerEmail ==
  \A i, j \in DOMAIN leads : leads[i].email = leads[j].email => i = j

\* The unique index has just refused a second row for an email.
C2_Witness ==
  \E p \in Calls :
    /\ calls[p].pc = "catch"
    /\ calls[p].err.kind = "P2002"
    /\ Cardinality(LeadsWith(calls[p].data.email)) = 1

\* C3: a call whose upsert was refused by the unique index returns the
\* existing lead and leaves the row processed with no error.
C3_UniqueViolationIsExisting ==
  \A p \in Calls :
    (calls[p].pc = "done" /\ calls[p].err.kind = "P2002") =>
      /\ calls[p].result.lead # <<>>
      /\ calls[p].result.lead = FindLead(leads, calls[p].data.email)
      /\ calls[p].result.inboundEmail[1].processed
      /\ calls[p].result.inboundEmail[1].error = Null

\* C4: two calls for two different rows whose bodies give the same email,
\* with no transient store failure in either and no third row carrying that
\* email: once both have returned, the email has exactly one lead, and its
\* name and phone are those of one of the two bodies.
C4_ConcurrentSameEmail ==
  \A p, q \in Calls :
    ( /\ p # q
      /\ calls[p].pc = "done"
      /\ calls[q].pc = "done"
      /\ calls[p].id # calls[q].id
      /\ calls[p].data.email # <<>>
      /\ calls[p].data.email = calls[q].data.email
      /\ calls[p].err.kind # "StoreError"
      /\ calls[q].err.kind # "StoreError"
      /\ \A i \in DOMAIN inboundEmails :
           (ParsedRow(i).ok /\ ParsedRow(i).email = calls[p].data.email)
             => i \in {calls[p].id, calls[q].id} ) =>
      /\ Cardinality(LeadsWith(calls[p].data.email)) = 1
      /\ \A i \in LeadsWith(calls[p].data.email) :
           \/ /\ leads[i].name = calls[p].data.name
              /\ leads[i].phone = calls[p].data.phone
           \/ /\ leads[i].name = calls[q].data.name
              /\ leads[i].phone = calls[q].data.phone

\* Two overlapping calls for different rows with the same email and
\* different names have returned, one of them refused by the unique index.
C4_Witness ==
  \E p, q \in Calls :
    /\ calls[p].pc = "done"
    /\ calls[q].pc = "done"
    /\ calls[p].id # calls[q].id
    /\ calls[p].data.email # <<>>
    /\ calls[p].data.email = calls[q].data.email
    /\ calls[p].data.name # calls[q].data.name
    /\ calls[p].err.kind = "none"
    /\ calls[q].err.kind = "P2002"

\* C5: when all the calls made for one row, two or more, have returned and
\* every store operation of theirs succeeded, the row is as one call leaves
\* it: processed, with no error and exactly one lead for its email when the
\* body parses, with the parse error and processed otherwise.
C5_DuplicateDelivery ==
  \A p, q \in Calls :
    ( /\ p # q
      /\ calls[p].id = calls[q].id
      /\ calls[p].id \in DOMAIN inboundEmails
      /\ \A r \in Calls :
           calls[r].id = calls[p].id => (calls[r].pc = "done" /\ StoreWorked(r)) ) =>
      \E parsed \in {ParsedRow(calls[p].id)} :
        /\ inboundEmails[calls[p].id].processed
        /\ inboundEmails[calls[p].id].error = parsed.message
        /\ parsed.ok => Cardinality(LeadsWith(parsed.email)) = 1

\* Two calls for the same row both went through the upsert and the update.
C5_Witness ==
  \E p, q \in Calls :
    /\ p # q
    /\ calls[p].id = calls[q].id
    /\ calls[p].pc = "done"
    /\ calls[q].pc = "done"
    /\ StoreWorked(p)
    /\ StoreWorked(q)
    /\ calls[p].result.lead # <<>>
    /\ calls[q].result.lead # <<>>

\* C6: a call for a row that is already processed ends in its first step
\* and writes nothing: both tables stay as they are, and it returns the row
\* with no lead.
C6_GuardWritesNothing ==
  [][\A p \in Calls : \A i \in DOMAIN inboundEmails :
       ( /\ calls[p].pc = "idle"
         /\ calls'[p].pc # "idle"
         /\ calls'[p].id = i
         /\ inboundEmails[i].processed ) =>
         /\ calls'[p].pc \in Finished
         /\ leads' = leads
         /\ inboundEmails' = inboundEmails
         /\ calls'[p].pc = "done" =>
              calls'[p].result = [inboundEmail |-> <<inboundEmails[i]>>, lead |-> <<>>]]_vars

\* A call returned a processed row with no lead and no error of its own.
C6_Witness ==
  \E p \in Calls :
    /\ calls[p].pc = "done"
    /\ calls[p].err.kind = "none"
    /\ calls[p].result.lead = <<>>
    /\ calls[p].result.inboundEmail[1].processed

\* C7: a call made, with no other call running, for a row that an earlier
\* call left processed ends with both tables exactly as they were when it
\* started.
C7_SecondCallChangesNothing ==
  [][\A p \in Calls :
       ( /\ calls[p].pc \notin Finished
         /\ calls'[p].pc \in Finished
         /\ calls'[p].snap # <<>> ) =>
         <<leads', inboundEmails'>> = calls'[p].snap]_vars

\* A second call for a row has returned after the first one had returned the
\* row processed.
C7_Witness ==
  \E p, q \in Calls :
    /\ p # q
    /\ calls[q].pc = "done"
    /\ calls[p].pc = "done"
    /\ calls[p].id = calls[q].id
    /\ calls[q].snap = <<>>
    /\ calls[q].result.inboundEmail[1].processed
    /\ calls[p].snap = <<leads, inboundEmails>>

\* C8: no step changes or removes a lead that exists; an upsert for an email
\* that has a lead writes nothing and hands that lead to the call; and the
\* update that follows marks the row processed and returns that lead.
C8_FirstWriteWins ==
  [][/\ \A i \in DOMAIN leads : i \in DOMAIN leads' /\ leads'[i] = leads[i]
     /\ \A p \in Calls :
          /\ ( /\ calls[p].pc = "upsert"
               /\ calls'[p].pc # "upsert"
               /\ calls'[p].err.kind = "none"
               /\ LeadsWith(calls[p].data.email) # {} ) =>
               /\ leads' = leads
               /\ calls'[p].pc = "update"
               /\ calls'[p].lead = FindLead(leads, calls[p].data.email)
          /\ (calls[p].pc = "update" /\ calls'[p].pc = "done") =>
               /\ calls'[p].result.lead = calls[p].lead
               /\ calls'[p].result.lead = FindLead(leads', calls[p].data.email)
               /\ calls'[p].result.inboundEmail = <<inboundEmails'[calls[p].id]>>
               /\ inboundEmails'[calls[p].id].processed]_vars

\* A call returned a lead that existed before, whose name and phone are not
\* those of the call's own body.
C8_Witness ==
  \E p \in Calls :
    /\ calls[p].pc = "done"
    /\ calls[p].result.lead # <<>>
    /\ calls[p].result.lead[1].email = calls[p].data.email
    /\ calls[p].result.lead[1].name # calls[p].data.name
    /\ calls[p].result.lead[1].phone # calls[p].data.phone
    /\ calls[p].result.inboundEmail[1].processed

\* C9: a call for an unprocessed row whose body does not parse goes to the
\* catch block with the parse error, and its write there marks the row
\* processed with the error's message; no step of it touches the Lead table
\* and it returns the row with no lead.
C9_ParseFailureIsTerminal ==
  [][\A p \in Calls :
       /\ \A i \in DOMAIN inboundEmails :
            ( /\ calls[p].pc = "idle"
              /\ calls'[p].pc \notin Finished \cup {"idle"}
              /\ calls'[p].id = i
              /\ ~ParsedRow(i).ok ) =>
              /\ calls'[p].pc = "catch"
              /\ calls'[p].err = ParseError(ParsedRow(i).message)
              /\ leads' = leads
       /\ ( /\ calls[p].pc = "catch"
            /\ calls[p].err.kind = "LeadParseError"
            /\ calls'[p].pc = "done" ) =>
            /\ inboundEmails'[calls[p].id].processed
            /\ inboundEmails'[calls[p].id].error = calls[p].err.message
            /\ inboundEmails'[calls[p].id].error # Null
            /\ leads' = leads
            /\ calls'[p].result =
                 [inboundEmail |-> <<inboundEmails'[calls[p].id]>>, lead |-> <<>>]]_vars

\* A call has returned after a parse failure.
C9_Witness ==
  \E p \in Calls :
    /\ calls[p].pc = "done"
    /\ calls[p].err.kind = "LeadParseError"
    /\ inboundEmails[calls[p].id].processed
    /\ Len(leads) = 0

\* C10: a store failure in the upsert or in the update writes nothing and
\* takes the call to the catch block, whose write leaves the row unprocessed
\* with the failure's message, the call returning it with no lead; and a row
\* is never processed with no error unless its body parses and a lead with
\* its email is stored.
C10_TransientFailureStaysRetryable ==
  /\ [](\A i \in DOMAIN inboundEmails :
          (inboundEmails[i].processed /\ inboundEmails[i].error = Null) =>
            (ParsedRow(i).ok /\ LeadsWith(ParsedRow(i).email) # {}))
  /\ [][\A p \in Calls :
          /\ ( /\ calls[p].pc \in {"upsert", "create", "update"}
               /\ calls'[p].err.kind = "StoreError" ) =>
               /\ calls'[p].pc = "catch"
               /\ leads' = leads
               /\ inboundEmails' = inboundEmails
          /\ ( /\ calls[p].pc = "catch"
               /\ calls[p].err.kind = "StoreError"
               /\ calls'[p].pc = "done" ) =>
               /\ ~inboundEmails'[calls[p].id].processed
               /\ inboundEmails'[calls[p].id].error = calls[p].err.message
               /\ inboundEmails'[calls[p].id].error # Null
               /\ calls'[p].result =
                    [inboundEmail |-> <<inboundEmails'[calls[p].id]>>, lead |-> <<>>]]_vars

\* A call has returned after a store failure in its try block.
C10_Witness ==
  \E p \in Calls :
    /\ calls[p].pc = "done"
    /\ calls[p].err.kind = "StoreError"
    /\ ~calls[p].result.inboundEmail[1].processed
    /\ calls[p].result.inboundEmail[1].error = StoreError.message

\* C11: a call for a row that an earlier call's store failure left
\* unprocessed with that failure's message is not stopped by the guard; its
\* upsert, when it succeeds, hands it the lead of the email, created or
\* found; and its update sets processed, clears the error and returns that
\* lead.
C11_RetryAfterTransientFailure ==
  [][\A p \in Calls : \A i \in DOMAIN inboundEmails :
       ( /\ ~inboundEmails[i].processed
         /\ inboundEmails[i].error = StoreError.message
         /\ calls'[p].id = i ) =>
         /\ ( /\ calls[p].pc = "idle"
              /\ calls'[p].pc \notin Finished \cup {"idle"}
              /\ ParsedRow(i).ok ) => calls'[p].pc = "upsert"
         /\ ( /\ calls[p].pc \in {"upsert", "create"}
              /\ calls'[p].pc = "update" ) =>
              /\ calls'[p].lead # <<>>
              /\ calls'[p].lead = FindLead(leads', ParsedRow(i).email)
         /\ ( /\ calls[p].pc = "update"
              /\ calls'[p].pc = "done" ) =>
              /\ inboundEmails'[i].processed
              /\ inboundEmails'[i].error = Null
              /\ calls'[p].result.lead # <<>>
              /\ calls'[p].result.lead = FindLead(leads', ParsedRow(i).email)]_vars

\* A call failed in the store and left the row unprocessed, and another call
\* for the row then went through and left it processed with no error.
C11_Witness ==
  \E p, q \in Calls :
    /\ calls[p].id = calls[q].id
    /\ calls[q].pc = "done"
    /\ calls[q].err.kind = "StoreError"
    /\ ~calls[q].result.inboundEmail[1].processed
    /\ calls[p].pc = "done"
    /\ calls[p].err.kind = "none"
    /\ calls[p].result.lead # <<>>
    /\ inboundEmails[calls[p].id].processed
    /\ inboundEmails[calls[p].id].error = Null

\* C12: a call never throws for a parse failure or a store failure; the only
\* error that leaves processInboundEmail is NotFound for an id no row has,
\* also when the store fails on the initial load or while the catch block
\* records the error.
C12_OnlyNotFoundPropagates ==
  \A p \in Calls :
    calls[p].pc = "threw" =>
      /\ calls[p].err.kind = "NotFoundError"
      /\ calls[p].id \notin DOMAIN inboundEmails

\* C13: a call made with an id no row has throws NotFound in its first step
\* and writes nothing: both tables stay as they are.
C13_MissingIdThrowsAndWritesNothing ==
  [][\A p \in Calls :
       ( /\ calls[p].pc = "idle"
         /\ calls'[p].pc # "idle"
         /\ calls'[p].id \notin DOMAIN inboundEmails ) =>
         /\ calls'[p].pc = "threw"
         /\ calls'[p].err.kind = "NotFoundError"
         /\ calls'[p].result = NoResult
         /\ leads' = leads
         /\ inboundEmails' = inboundEmails]_vars

\* A call made with an id no row has threw NotFound while rows and a lead
\* were stored.
C13_Witness ==
  \E p \in Calls :
    /\ calls[p].pc = "threw"
    /\ calls[p].err.kind = "NotFoundError"
    /\ calls[p].id \notin DOMAIN inboundEmails
    /\ Len(inboundEmails) > 0
    /\ Len(leads) > 0

\* C14: a call whose body parsed and whose store operations all succeeded has
\* returned the row processed with no error, and with it the stored lead of
\* the extracted email, whether the call created it or found it.
C14_SuccessPath ==
  \A p \in Calls :
    ( /\ calls[p].pc = "done"
      /\ calls[p].err.kind = "none"
      /\ calls[p].data # NoData ) =>
      /\ ParsedRow(calls[p].id).ok
      /\ calls[p].data.email = ParsedRow(calls[p].id).email
      /\ calls[p].result.inboundEmail # <<>>
      /\ calls[p].result.inboundEmail[1].processed
      /\ calls[p].result.inboundEmail[1].error = Null
      /\ calls[p].result.inboundEmail[1].rawText = inboundEmails[calls[p].id].rawText
      /\ calls[p].result.lead # <<>>
      /\ calls[p].result.lead = FindLead(leads, calls[p].data.email)

\* Two calls for different rows with one email have returned the same lead:
\* one created it, the other found it.
C14_Witness ==
  \E p, q \in Calls :
    /\ calls[p].pc = "done"
    /\ calls[q].pc = "done"
    /\ calls[p].err.kind = "none"
    /\ calls[q].err.kind = "none"
    /\ calls[p].id # calls[q].id
    /\ calls[p].result.lead # <<>>
    /\ calls[p].result.lead = calls[q].result.lead
    /\ calls[p].result.lead[1].name = calls[p].data.name
    /\ calls[q].result.lead[1].name # calls[q].data.name

\* The positions of the rows with this email in a Lead table.
LeadRows(rows, email) == {k \in DOMAIN rows : rows[k].email = email}

\* C15: when a call for a row was cancelled, at whatever point, a call for
\* the same row that returns without a store failure leaves what a call that
\* nobody cancelled leaves: the row processed, with the parse error or, when
\* the body parses, with no error, exactly one lead for its email, and that
\* lead returned if the call went through the upsert.
C15_RerunAfterInterrupt ==
  [][\A p, q \in Calls :
       ( /\ calls[q].pc = "cancelled"
         /\ calls[p].pc \notin Finished
         /\ calls'[p].pc = "done"
         /\ calls'[p].id = calls[q].id
         /\ StoreWorked(p)' ) =>
         \E parsed \in {ParsedRow(calls[q].id)} :
           /\ inboundEmails'[calls[q].id].processed
           /\ inboundEmails'[calls[q].id].error = parsed.message
           /\ parsed.ok => Cardinality(LeadRows(leads', parsed.email)) = 1
           /\ ~parsed.ok => calls'[p].result.lead = <<>>
           /\ calls'[p].result.lead # <<>> =>
                \E k \in LeadRows(leads', parsed.email) :
                  calls'[p].result.lead = <<leads'[k]>>]_vars

\* A call was cancelled after its upsert wrote the lead and before the row
\* was marked, and a later call for the row returned that lead and left the
\* row processed.
C15_Witness ==
  \E p, q \in Calls :
    /\ calls[q].pc = "cancelled"
    /\ calls[q].lead # <<>>
    /\ calls[q].lead[1].name = calls[q].data.name
    /\ calls[p].pc = "done"
    /\ calls[p].id = calls[q].id
    /\ calls[p].err.kind = "none"
    /\ calls[p].result.lead = calls[q].lead
    /\ inboundEmails[calls[p].id].processed
    /\ Cardinality(LeadsWith(calls[p].data.email)) = 1

\* A call made for the row is running or has ended and is not yet taken back.
Invoked(id) == \E p \in Calls : calls[p].pc # "idle" /\ calls[p].id = id

\* A call for the row went through load, parse, upsert and update, or load,
\* parse and catch, with the store working on every operation.
Worked(id) ==
  \E p \in Calls :
    /\ calls[p].pc = "done"
    /\ calls[p].id = id
    /\ StoreWorked(p)
    /\ calls[p].result.inboundEmail[1].processed
    /\ calls[p].snap = <<>>

\* C16: when processInboundEmail keeps being called for the row and, again
\* and again, the store works on every operation of a call, the row is
\* processed from some point on for ever.
C16_EventuallyTerminal ==
  ([]<>Invoked(1) /\ []<>Worked(1)) => <>[](inboundEmails[1].processed)

\* ---- a text read line by line, as the format describes it ----
\* The three fields in the order they are reported.
Fields ==
  <<[re |-> NAME_RE, fieldName |-> "Name"],
    [re |-> PHONE_RE, fieldName |-> "Phone"],
    [re |-> EMAIL_RE, fieldName |-> "Email"]>>

\* Where the lines of t start, and the line that starts at s.
LineStarts(t) == {s \in 1..Len(t) : s = 1 \/ t[s - 1] = "\n"}
LineAt(t, s) == Slice(t, s, LineEnd(t, s))

\* Whether a line begins with the label, in any casing.
BeginsWith(line, label) ==
  /\ Len(line) >= Len(label)
  /\ \A k \in 1..Len(label) : ToLower(line[k]) = label[k]

\* The colon of a label line: after the label and blanks only.
ColonsOf(line, label) ==
  {k \in (Len(label) + 1)..Len(line) :
     /\ line[k] = ":"
     /\ \A j \in (Len(label) + 1)..(k - 1) : line[j] \in {" ", "\t"}}

\* The starts of the lines of t that carry the label, and the trimmed value
\* of the one that starts at s.
LabelLines(t, label) ==
  {s \in LineStarts(t) :
     BeginsWith(LineAt(t, s), label) /\ ColonsOf(LineAt(t, s), label) # {}}
ValueOfLine(line, label) ==
  Trim(Slice(line, Least(ColonsOf(line, label)) + 1, Len(line)))
ValueAt(t, label, s) == ValueOfLine(LineAt(t, s), label)

\* The values the lines of t give to a label.
ValuesOf(t, label) == {ValueAt(t, label, s) : s \in LabelLines(t, label)}

\* t has, for each label, exactly one line, and its value is not empty; the
\* other lines begin with no label.
ThreeLabeledLines(t) ==
  /\ \A f \in 1..3 :
       /\ Cardinality(LabelLines(t, Fields[f].re)) = 1
       /\ <<>> \notin ValuesOf(t, Fields[f].re)
  /\ \A s \in LineStarts(t) :
       (\E f \in 1..3 : BeginsWith(LineAt(t, s), Fields[f].re)) =>
         \E f \in 1..3 : s \in LabelLines(t, Fields[f].re)

\* What the claim expects of a text with the three values.
Expected(name, phone, email) ==
  IF phone.ok
  THEN [ok |-> TRUE, name |-> name, phone |-> phone.value, email |-> email,
        message |-> Null]
  ELSE ParseFailure(phone.message)

\* C17: for a text with one line for each of Name, Phone and Email, in any
\* order and casing, each with a value, among lines that begin with no label,
\* parseLeadFromEmail returns the trimmed values of the Name and Email lines
\* and the normalised value of the Phone line (the phone error when that
\* value cannot be normalised).
C17_ParsesThreeLabeledLines ==
  (out # NotRun /\ ThreeLabeledLines(text)) =>
    \E name \in ValuesOf(text, NAME_RE) :
      \E phone \in ValuesOf(text, PHONE_RE) :
        \E email \in ValuesOf(text, EMAIL_RE) :
          out = Expected(name, normalizePhone(phone), email)

\* A text of four lines that starts with its Email line and writes its name
\* as "name :  B " has been parsed.
C17_Witness ==
  /\ out # NotRun
  /\ ThreeLabeledLines(text)
  /\ Cardinality(LineStarts(text)) = 4
  /\ text[1] = "E"
  /\ out.ok
  /\ out.name = <<"B">>
  /\ out.phone = <<"+", "1">> \o LocalPhone
  /\ out.email = <<"a">>

\* The fields for which t has no line.
Absent(t) == {f \in 1..3 : LabelLines(t, Fields[f].re) = {}}

\* Every line of t that carries a label carries a value.
NoEmptyValue(t) == \A f \in 1..3 : <<>> \notin ValuesOf(t, Fields[f].re)

FirstEmpty(t, f) ==
  /\ ValuesOf(t, Fields[f].re) = {<<>>}
  /\ \A g \in 1..(f - 1) :
       /\ LabelLines(t, Fields[g].re) # {}
       /\ <<>> \notin ValuesOf(t, Fields[g].re)

\* C19: when the line of a label carries an empty or blank value,
\* parseLeadFromEmail fails with the missing-field message of that field,
\* whatever lines follow; and a name or an email it returns is the value of
\* a line that carries the label.
C19_ValueFromSameLineOnly ==
  out # NotRun =>
    /\ \A f \in 1..3 :
         FirstEmpty(text, f) =>
           (~out.ok /\ out.message = MissingMessage(Fields[f].fieldName))
    /\ out.ok =>
         /\ out.name \in ValuesOf(text, NAME_RE)
         /\ out.email \in ValuesOf(text, EMAIL_RE)

\* ---- a phone text read as the rules describe it ----
IsDigit(c) == c \in Digits
DigitsIn(s) == SelectSeq(s, IsDigit)

\* A plus sign followed by 7 to 15 digits and nothing else.
Canonical(s) ==
  /\ s # <<>>
  /\ Head(s) = "+"
  /\ DigitsIn(s) = Tail(s)
  /\ Len(Tail(s)) \in 7..15

\* The spellings of one US number that the claim lists.
SameUsNumber ==
  { <<"5", "5", "5", "-", "1", "2", "3", "-", "4", "5", "6", "7">>,
    <<"(", "5", "5", "5", ")", " ", "1", "2", "3", "-", "4", "5", "6", "7">>,
    LocalPhone,
    <<"1">> \o LocalPhone,
    <<"1", "-", "5", "5", "5", "-", "1", "2", "3", "-", "4", "5", "6", "7">> }

\* C20: normalizePhone returns a text that is a plus sign and 7 to 15 digits
\* as it is; any other text with exactly 10 digits gives +1 and the digits,
\* and any other with exactly 11 digits that start with 1 gives + and the
\* digits; so the five listed spellings give +15551234567 and +447700900123
\* stays as it is.
C20_NormalizePhoneRules ==
  out # NotRun =>
    /\ Canonical(text) => (out.ok /\ out.value = text)
    /\ (~Canonical(text) /\ Len(DigitsIn(text)) = 10) =>
         (out.ok /\ out.value = <<"+", "1">> \o DigitsIn(text))
    /\ (~Canonical(text) /\ Len(DigitsIn(text)) = 11 /\ Head(DigitsIn(text)) = "1") =>
         (out.ok /\ out.value = <<"+">> \o DigitsIn(text))
    /\ text \in SameUsNumber => (out.ok /\ out.value = <<"+", "1">> \o LocalPhone)
    /\ text = <<"+", "4", "4", "7", "7", "0", "0", "9", "0", "0", "1", "2", "3">> =>
         (out.ok /\ out.value = text)

\* A plus sign and exactly 10 digits, which both the first and the second
\* rule could take, has been normalised by the first: it is unchanged.
C20_Witness ==
  /\ out # NotRun
  /\ text = <<"+">> \o Fives(10)
  /\ out.ok
  /\ out.value = text

\* C21: normalizePhone is idempotent: when normalizePhone(x) succeeds,
\* normalizePhone applied to its result succeeds and returns that result.
C21_NormalizeIdempotent ==
  again # NotRun => (again.ok /\ again.value = out.value)

\* A text that the first call changed has been normalised a second time.
C21_Witness ==
  /\ again # NotRun
  /\ text = <<"(", "5", "5", "5", ")", " ", "1", "2", "3", "-", "4", "5", "6", "7">>
  /\ out.value # text
  /\ again.ok

\* ---- what an error message says ----
\* sub occurs in s as a run of consecutive characters.
Contains(s, sub) ==
  \E i \in 1..(Len(s) - Len(sub) + 1) : SubSeq(s, i, i + Len(sub) - 1) = sub

DigitChar(d) ==
  CASE d = 0 -> "0" [] d = 1 -> "1" [] d = 2 -> "2" [] d = 3 -> "3" [] d = 4 -> "4"
    [] d = 5 -> "5" [] d = 6 -> "6" [] d = 7 -> "7" [] d = 8 -> "8" [] d = 9 -> "9"

\* n written in decimal.
RECURSIVE Decimal(_)
Decimal(n) == IF n < 10 THEN <<DigitChar(n)>> ELSE Decimal(n \div 10) \o <<DigitChar(n % 10)>>

\* The message of the LeadParseError that normalizePhone throws opens with
\* `Phone "`; the one for a missing field opens with `Could not extract`.
InvalidPhone(result) ==
  /\ ~result.ok
  /\ Len(result.message) >= 7
  /\ SubSeq(result.message, 1, 7) = <<"P", "h", "o", "n", "e", " ", "\"">>

\* The phone texts the tests and the claim list as invalid.
InvalidExamples ==
  { <<"5", "5", "5", "1", "2", "3", "4", "5", "6">>,
    <<"5", "5", "5", "1", "2", "3", "4", "5", "6", "7", "8", "9">>,
    <<"2", "5", "5", "5", "1", "2", "3", "4", "5", "6", "7">>,
    <<>>,
    <<"n", "o", "t", "-", "a", "-", "p", "h", "o", "n", "e">>,
    <<"5", "5", "5", "-", "A", "B", "C", "-", "4", "5", "6", "7">> }

\* C22: normalizePhone fails with the invalid-phone error for every text that
\* is not a plus sign and 7 to 15 digits and whose digits, once everything else
\* is stripped, are neither 10 nor 11 beginning with 1; among them 9 digits,
\* 12 digits without a plus sign, 11 digits not beginning with 1, the empty
\* text and texts that letters leave with too few digits.
C22_OtherTextsAreInvalid ==
  out # NotRun =>
    /\ ( /\ ~Canonical(text)
         /\ Len(DigitsIn(text)) # 10
         /\ ~(Len(DigitsIn(text)) = 11 /\ Head(DigitsIn(text)) = "1") )
       => InvalidPhone(out)
    /\ text \in InvalidExamples => InvalidPhone(out)

\* Eleven digits that do not begin with 1 have been refused.
C22_Witness ==
  /\ out # NotRun
  /\ text = <<"2", "5", "5", "5", "1", "2", "3", "4", "5", "6", "7">>
  /\ InvalidPhone(out)

\* C23: the error of a failed normalisation carries the raw phone text and
\* the number of digits that were left after stripping.
C23_ErrorCarriesRawAndDigitCount ==
  (out # NotRun /\ ~out.ok) =>
    /\ Contains(out.message, text)
    /\ Contains(out.message, Decimal(Len(DigitsIn(text))))

\* ---- the outcomes of parseLeadFromEmail ----
\* A candidate: the three fields, none of them empty.
Candidate(result) ==
  /\ result.ok
  /\ result.name # <<>>
  /\ result.phone # <<>>
  /\ result.email # <<>>

\* The LeadParseError of extractField, which names the field.
MissingField(result) ==
  /\ ~result.ok
  /\ \E f \in DOMAIN Fields : result.message = MissingMessage(Fields[f].fieldName)

Configured(env) == env \notin {Undefined, <<"">>}

\* verifyWebhookSecret runs for request r in this step.
Verifies(r) ==
  /\ r <= Len(requests)
  /\ requests[r].pc = "arrived"
  /\ requests'[r].pc = "verified"

\* C25: verifyWebhookSecret calls next() exactly when the secret is configured
\* and the x-webhook-secret header equals it, and then once; when the secret
\* is not configured it responds 500, when the header is absent or different
\* it responds 401, and in both cases next() is not called.
C25_NextOnlyWithTheSecret ==
  [][\A r \in 1..MaxRequests :
       Verifies(r) =>
         /\ requests'[r].res.nextCalls =
              (IF Configured(secret) /\ requests[r].provided = secret THEN 1 ELSE 0)
         /\ requests'[r].res.nextCalls = 1 => requests'[r].res.statusCode = 0
         /\ ~Configured(secret) =>
              (requests'[r].res.statusCode = 500 /\ requests'[r].res.nextCalls = 0)
         /\ (Configured(secret) /\ requests[r].provided # secret) =>
              (requests'[r].res.statusCode = 401 /\ requests'[r].res.nextCalls = 0)]_vars

\* One request was let through, and after the secret was deleted a second
\* one with the same header was answered 500.
C25_Witness ==
  /\ Len(requests) = 2
  /\ requests[1].provided = SECRET
  /\ requests[1].res.nextCalls = 1
  /\ requests[2].provided = SECRET
  /\ requests[2].res.statusCode = 500
  /\ requests[2].res.nextCalls = 0

\* ---- sendSms: send, then log ----
\* The MessageLog row of call s's message.
LogRow(s) == [leadId |-> sends[s].leadId, direction |-> "OUTBOUND", body |-> sends[s].body]

\* Twilio has accepted call s's message.
Sent(s) ==
  /\ sends[s].twilioSid \in 1..Len(twilio)
  /\ twilio[sends[s].twilioSid].body = sends[s].body
  /\ twilio[sends[s].twilioSid].to = sends[s].to

\* C26: sendSms sends through Twilio before it writes the log: a MessageLog
\* row is written only by a call whose message Twilio has accepted, and when
\* Twilio rejects the send the call fails with SmsSendError and no row is
\* written.
C26_SendThenLog ==
  [][
      /\ messageLogs' # messageLogs =>
          \E s \in Sends :
            /\ Sent(s)
            /\ sends[s].pc = "log"
            /\ messageLogs' = Append(messageLogs, LogRow(s))
      /\ \A t \in Sends :
           (sends[t].pc = "create" /\ sends'[t].pc = "threw") =>
             /\ sends'[t].err.kind = "SmsSendError"
             /\ sends'[t].twilioSid = 0
             /\ sends'[t].messageLog = 0
             /\ messageLogs' = messageLogs
    ]_vars

\* Twilio rejected one call and accepted the other, which wrote its row.
C26_Witness ==
  /\ sends[1].pc = "threw"
  /\ sends[1].err.kind = "SmsSendError"
  /\ sends[2].pc = "done"
  /\ Len(twilio) = 1
  /\ messageLogs = <<LogRow(2)>>

\* Calls whose message Twilio has accepted, and calls that wrote their row.
SentCalls == {s \in Sends : sends[s].twilioSid # 0}
LoggedCalls == {s \in Sends : sends[s].messageLog # 0}

\* C27: when the MessageLog write fails after Twilio accepted the message,
\* sendSms fails with the store's error and not with SmsSendError, the
\* message stays sent, once, and no MessageLog row exists for it.
C27_LogFailureAfterSend ==
  /\ [](/\ Len(twilio) = Cardinality(SentCalls)
        /\ Len(messageLogs) = Cardinality(LoggedCalls)
        /\ \A s \in Sends :
             (sends[s].pc = "threw" /\ sends[s].twilioSid # 0) =>
               /\ sends[s].err = StoreError
               /\ Sent(s)
               /\ sends[s].messageLog = 0)
  /\ [][\A s \in Sends :
          (sends[s].pc = "log" /\ sends'[s].pc = "threw") =>
            /\ sends'[s].err.kind # "SmsSendError"
            /\ twilio' = twilio
            /\ messageLogs' = messageLogs]_vars

\* Both calls were accepted by Twilio and both writes failed: two messages
\* are out and the log is empty.
C27_Witness ==
  /\ \A s \in Sends : sends[s].pc = "threw" /\ sends[s].err = StoreError
  /\ Len(twilio) = 2
  /\ messageLogs = <<>>

\* C28: in every state a processed row has no error exactly when its body
\* parses, and when a row is processed with no error the Lead table holds a
\* lead with the email extracted from its body. The states are those the
\* calls of processInboundEmail reach, overlapping and with store failures.
C28_ProcessedRowsMatchTheParse ==
  \A i \in DOMAIN inboundEmails :
    inboundEmails[i].processed =>
      /\ (inboundEmails[i].error = Null) <=> ParsedRow(i).ok
      /\ (inboundEmails[i].error = Null) => LeadsWith(ParsedRow(i).email) # {}

\* One row is processed with no error and its lead is there; the other is
\* processed with the error of its parse.
C28_Witness ==
  /\ Len(inboundEmails) = 2
  /\ \A i \in DOMAIN inboundEmails : inboundEmails[i].processed
  /\ inboundEmails[1].error = Null
  /\ ParsedRow(1).ok
  /\ LeadsWith(ParsedRow(1).email) # {}
  /\ inboundEmails[2].error # Null
  /\ ~ParsedRow(2).ok

\* Call p of processInboundEmail takes a step.
Steps(p) == calls'[p] # calls[p]

\* C29: a call of processInboundEmail for an id writes nothing in the
\* InboundEmail table but the processed and error columns of the row with
\* that id: no row and no lead is deleted, no row's rawText changes, rows keep
\* their place, and every other row stays as it is.
C29_WritesOnlyItsRowsStatus ==
  [][\A p \in Calls :
       Steps(p) =>
         /\ Len(inboundEmails') = Len(inboundEmails)
         /\ \A i \in DOMAIN inboundEmails :
              /\ inboundEmails'[i].rawText = inboundEmails[i].rawText
              /\ i # calls'[p].id => inboundEmails'[i] = inboundEmails[i]
         /\ Len(leads') >= Len(leads)
         /\ \A k \in DOMAIN leads : leads'[k].email = leads[k].email]_vars

\* With two rows and a lead stored, a call has written the status of the
\* second row.
C29_Witness ==
  \E p \in Calls :
    /\ calls[p].pc = "done"
    /\ calls[p].id = 2
    /\ calls[p].err.kind = "none"
    /\ inboundEmails[2].processed
    /\ ~inboundEmails[1].processed
    /\ inboundEmails[1].error = Null
    /\ Len(leads) = 1

\* C30: every lead the calls create has a phone that is a plus sign and 7
\* to 15 digits, whatever phone text the email held, and a name and an email
\* that are the values extracted from the body of a stored email, with no
\* white space around them.
C30_LeadsAreCanonical ==
  \A k \in DOMAIN leads :
    /\ Canonical(leads[k].phone)
    /\ leads[k].name # <<>>
    /\ Trim(leads[k].name) = leads[k].name
    /\ Trim(leads[k].email) = leads[k].email
    /\ \E i \in DOMAIN inboundEmails :
         /\ Candidate(ParsedRow(i))
         /\ leads[k].name = ParsedRow(i).name
         /\ leads[k].email = ParsedRow(i).email
         /\ leads[k].phone = ParsedRow(i).phone

\* The email held "1-555-123-4567 " after the label and its lead has
\* +15551234567, the name A and the email a.
C30_Witness ==
  /\ inboundEmails[1].rawText =
       IntakeBody(<<"1", "-", "5", "5", "5", "-", "1", "2", "3", "-", "4", "5", "6", "7">>)
  /\ Len(leads) = 1
  /\ leads[1].phone = <<"+", "1">> \o LocalPhone
  /\ leads[1].name = <<"A">>
  /\ leads[1].email = <<"a">>

\* ---- a label on several lines ----
\* The start of the first line of t, in text order, that carries the label
\* with a value that is not empty; the fields that have such a line.
Valued(t, label) == {s \in LabelLines(t, label) : ValueAt(t, label, s) # <<>>}
FirstValue(t, label) == ValueAt(t, label, Least(Valued(t, label)))
AllValued(t) == \A f \in 1..3 : Valued(t, Fields[f].re) # {}

\* C31: when a label stands on several lines, parseLeadFromEmail takes the
\* value of the first line, in text order, that carries the label with a
\* value that is not empty, and ignores the later lines with that label: a
\* text with such a line for each field gives these three values (the phone
\* normalised, or the phone error).
C31_FirstValuedLineWins ==
  (out # NotRun /\ AllValued(text)) =>
    out = Expected(FirstValue(text, NAME_RE),
                   normalizePhone(FirstValue(text, PHONE_RE)),
                   FirstValue(text, EMAIL_RE))

\* C32: a missing field is reported before an invalid phone: when the text
\* has no line that gives Name a value, or none that gives Email one,
\* parseLeadFromEmail fails with a missing-field error even if the phone text
\* cannot be normalised, and it fails with the invalid-phone error only when
\* each of the three fields has a line with a value that is not empty.
C32_MissingFieldBeforeInvalidPhone ==
  out # NotRun =>
    /\ (Valued(text, NAME_RE) = {} \/ Valued(text, EMAIL_RE) = {}) => MissingField(out)
    /\ InvalidPhone(out) => AllValued(text)

\* ---- the webhook's handler ----
\* handleInboundEmail has run to its end for request r: it responded, or its
\* promise rejected.
Handled(r) == requests[r].res.nextCalls = 1 /\ requests[r].pc \in {"responded", "rejected"}

\* The status the handler's doc gives for the request.
StatusFor(r) ==
  IF ~ValidPayload(requests[r].body) THEN 400
  ELSE IF requests[r].savedId = 0 THEN 500
  ELSE 200

\* C33: handleInboundEmail sends exactly one response for every request,
\* whatever saving and processing come to: 400 for an invalid payload, 500
\* when the save fails, and 200 otherwise, also when processing ended in a
\* parse failure or a store failure.
C33_OneResponsePerRequest ==
  \A r \in DOMAIN requests :
    /\ Len(requests[r].sent) <= 1
    /\ Handled(r) => requests[r].sent = <<StatusFor(r)>>

\* The requests whose raw email was saved.
Saved == {r \in DOMAIN requests : requests[r].savedId # 0}

\* Request r was answered with this status.
Answered(r, code) == requests[r].sent = <<code>>

\* C34: handleInboundEmail stores the raw email with processed = false before
\* it runs processing, and processInboundEmail is only ever called on the id
\* a request has just saved; a request with an invalid payload or a failed
\* save stores no row, starts no call and creates no Lead.
C34_SaveThenProcessTheSavedId ==
  /\ [](/\ Len(inboundEmails) = Cardinality(Saved)
        /\ \A p \in Calls : calls[p].pc # "idle" =>
             \E r \in Saved : requests[r].savedId = calls[p].id
        /\ \A r \in DOMAIN requests :
             Answered(r, 400) \/ Answered(r, 500) => r \notin Saved)
  /\ [][
       /\ \A r \in DOMAIN requests :
            requests'[r].savedId # requests[r].savedId =>
              /\ requests[r].savedId = 0
              /\ requests'[r].savedId = Len(inboundEmails) + 1
              /\ inboundEmails' =
                   Append(inboundEmails,
                          [rawText |-> RawTextOf(requests[r].body),
                           processed |-> FALSE, error |-> Null])
              /\ CallsOf(r)' = {}
       /\ \A p \in Calls :
            calls[p].pc = "idle" /\ calls'[p].pc # "idle" =>
              \E r \in Saved :
                /\ requests[r].pc = "process"
                /\ calls'[p].id = requests[r].savedId
                /\ ~inboundEmails[calls'[p].id].processed
       /\ \A r \in DOMAIN requests :
            /\ ~ValidPayload(requests[r].body) \/ Answered(r, 500)'
            /\ requests'[r] # requests[r]
            => /\ inboundEmails' = inboundEmails
               /\ leads' = leads
               /\ calls' = calls
     ]_vars

\* An invalid payload and a failed save were answered and a saved email was
\* processed into a Lead.
C34_Witness ==
  /\ \E r \in DOMAIN requests : Answered(r, 400) \/ Answered(r, 500)
  /\ \E r \in Saved : Answered(r, 200) /\ inboundEmails[requests[r].savedId].processed
  /\ leads # <<>>

\* verifyWebhookSecret answered request r itself and did not call next().
Refused(r) == requests[r].pc = "verified" /\ requests[r].res.nextCalls = 0

\* The requests verifyWebhookSecret handed on with next().
HandedOn == {r \in DOMAIN requests : requests[r].res.nextCalls = 1}

\* C35: on POST /webhooks/inbound-email the secret check runs before the
\* handler: a request that fails verifyWebhookSecret never reaches
\* handleInboundEmail, so no InboundEmail row is saved for it, no processing
\* runs for it and no Lead is created for it.
C35_SecretCheckBeforeHandler ==
  /\ [](/\ \A r \in DOMAIN requests :
             requests[r].pc = "arrived" \/ Refused(r) =>
               /\ requests[r].savedId = 0
               /\ requests[r].sent = <<>>
               /\ CallsOf(r) = {}
        /\ Saved \subseteq HandedOn
        /\ Len(inboundEmails) = Cardinality(Saved)
        /\ \A p \in Calls : calls[p].pc # "idle" =>
             \E r \in HandedOn : requests[r].savedId = calls[p].id
        /\ leads # <<>> => \E r \in HandedOn : CallsOf(r) # {})
  /\ [][
       \A r \in DOMAIN requests : Refused(r) => requests'[r] = requests[r]
     ]_vars

\* A delivery with a valid lead email was refused by the secret check while
\* another delivery was handled and answered.
C35_Witness ==
  /\ \E r \in DOMAIN requests :
       /\ Refused(r)
       /\ requests[r].res.statusCode = 401
       /\ ValidPayload(requests[r].body)
  /\ \E r \in HandedOn : Answered(r, 200)

\* Requests a and b delivered the same email content, a parseable lead email,
\* and the handler answered both after their rows were stored and their
\* processing calls returned.
Redelivered(a, b) ==
  /\ a # b
  /\ requests[a].body = requests[b].body
  /\ parseLeadFromEmail(RawTextOf(requests[a].body)).ok
  /\ a \in Saved /\ b \in Saved
  /\ Answered(a, 200) /\ Answered(b, 200)

\* C36: two webhook deliveries of the same email content are stored as two
\* separate InboundEmail rows and both are processed, yet there is exactly
\* one Lead for the extracted email and both rows end with processed = true
\* and error = null (no store operation fails in the claim's scenario).
C36_RedeliveryMakesOneLead ==
  \A a, b \in DOMAIN requests :
    Redelivered(a, b) /\ failures = 0 =>
      /\ requests[a].savedId # requests[b].savedId
      /\ Cardinality(LeadsWith(parseLeadFromEmail(RawTextOf(requests[a].body)).email)) = 1
      /\ \A r \in {a, b} :
           /\ inboundEmails[requests[r].savedId].processed
           /\ inboundEmails[requests[r].savedId].error = Null

\* ---- lib/twilio.ts ----
\* The k-th call so far was a call of getTwilioClient.
IsGet(k) == clientOps[k].op = "get"

\* _setTwilioClient(null) was called so many times.
Clears == Cardinality({k \in DOMAIN clientOps : clientOps[k] = [op |-> "set", client |-> Null]})

\* C37: getTwilioClient constructs the Twilio client at most once per
\* process: it constructs only when _client is null, so after the first call
\* every later call returns the same instance, until _setTwilioClient
\* replaces or clears it.
C37_ClientConstructedOnce ==
  /\ [](/\ \A i, j \in DOMAIN clientOps :
             i < j /\ (\A k \in i..j : IsGet(k)) => clientOps[j].client = clientOps[i].client
        /\ \A k \in DOMAIN clientOps : IsGet(k) => clientOps[k].client # Null
        /\ constructions <= 1 + Clears
        /\ (\A k \in DOMAIN clientOps : IsGet(k)) => constructions <= 1)
  /\ [][
       /\ constructions' # constructions =>
            /\ client = Null
            /\ constructions' = constructions + 1
            /\ client' = <<Constructed(constructions')>>
       /\ Len(clientOps') > Len(clientOps) /\ clientOps'[Len(clientOps')].op = "get" =>
            /\ client # Null => client' = client /\ constructions' = constructions
            /\ clientOps'[Len(clientOps')].client = client'
     ]_vars

\* Two calls in a row returned the one constructed client, it was cleared,
\* and the next call constructed the second.
C37_Witness ==
  /\ Len(clientOps) = 4
  /\ IsGet(1) /\ IsGet(2) /\ IsGet(4)
  /\ clientOps[1].client = <<Constructed(1)>>
  /\ clientOps[2].client = <<Constructed(1)>>
  /\ clientOps[3] = [op |-> "set", client |-> Null]
  /\ clientOps[4].client = <<Constructed(2)>>
  /\ constructions = 2
====
